---- MODULE Spec2Model ----
(***************************************************************************)
(* qujax: observable evaluation (observable.py) and circuit argument      *)
(* checks (circuit_tools.py).                                              *)
(*                                                                         *)
(* Every public function is pure, so the state machine is a call record:   *)
(* Init draws the function `fn` and its arguments `args` from bounded      *)
(* sets, one action per function applies it and stores what it returns or  *)
(* raises in `ret`.  `back` holds the result of feeding an encoded result  *)
(* into bitstrings_to_integers.                                            *)
(*                                                                         *)
(* Arrays are records [shape, data]: `shape` is the tuple of dimensions    *)
(* and `data` the elements in row-major (C) order, as numpy/jax lay them   *)
(* out.  Axis numbers and indices are 0-based as in the source; TLA+       *)
(* sequences are 1-based, hence the +1 at each access.  Complex numbers    *)
(* are pairs <<re, im>> of integers (Gaussian integers).                   *)
(*                                                                         *)
(* jax integers are 32 bits wide; every integer input of the model stays   *)
(* far below 2^31, the one place where the code leaves that range          *)
(* (the cast of -inf in integers_to_bitstrings) is modelled explicitly.    *)
(***************************************************************************)
EXTENDS Integers, Sequences, FiniteSets, TLC

VARIABLES fn, args, ret, back, pc

vars == <<fn, args, ret, back, pc>>

-----------------------------------------------------------------------------
(* Bounds of the model *)

\* largest nbits drawn; scalar integers are drawn below 2^MaxBits
MaxBits == 4
\* array elements are drawn below 2^MaxElemBits, rows of a batch are this wide at most
MaxElemBits == 2
\* longest array of integers, most rows of a batch of bitstrings
MaxLen == 2
\* most qubits of a statetensor
MaxQubits == 3
\* most samples drawn
MaxSamps == 2
\* most gates of one gate sequence, widest gate tensor of the single-term evaluator
MaxGates == 2
\* most terms and most coefficients of a weighted observable
MaxTerms == 2
\* longest gate_seq / qubit_inds_seq / param_inds_seq handed to check_circuit
MaxCirc == 2

-----------------------------------------------------------------------------
(* Row-major arrays *)

RECURSIVE Prod(_)
Prod(s) == IF s = <<>> THEN 1 ELSE Head(s) * Prod(Tail(s))

Size(a) == Prod(a.shape)

Ndim(a) == Len(a.shape)

\* offset of the multi-index idx in an array of the given shape
RECURSIVE Ravel(_, _)
Ravel(idx, shape) ==
    IF idx = <<>> THEN 0
    ELSE Head(idx) * Prod(Tail(shape)) + Ravel(Tail(idx), Tail(shape))

\* multi-index of offset p in an array of the given shape
RECURSIVE Unravel(_, _)
Unravel(p, shape) ==
    IF shape = <<>> THEN <<>>
    ELSE <<p \div Prod(Tail(shape))>> \o Unravel(p % Prod(Tail(shape)), Tail(shape))

At(a, idx) == a.data[Ravel(idx, a.shape) + 1]

Scalar(v) == [shape |-> <<>>, data |-> <<v>>]

Vector(s) == [shape |-> <<Len(s)>>, data |-> s]

SelectSeqNot1(s) == SelectSeq(s, LAMBDA d : d # 1)

\* jnp.atleast_1d
AtLeast1d(a) == IF Ndim(a) = 0 THEN [a EXCEPT !.shape = <<1>>] ELSE a

\* jnp.atleast_2d
AtLeast2d(a) ==
    IF Ndim(a) = 0 THEN [a EXCEPT !.shape = <<1, 1>>]
    ELSE IF Ndim(a) = 1 THEN [a EXCEPT !.shape = <<1>> \o a.shape]
    ELSE a

\* jnp.squeeze: every axis of length 1 is dropped
Squeeze(a) == [a EXCEPT !.shape = SelectSeqNot1(a.shape)]

RECURSIVE SeqSum(_)
SeqSum(s) == IF s = <<>> THEN 0 ELSE Head(s) + SeqSum(Tail(s))

RECURSIVE SeqMax(_)
SeqMax(s) == IF Len(s) = 1 THEN s[1]
             ELSE LET m == SeqMax(Tail(s)) IN IF s[1] > m THEN s[1] ELSE m

\* ascending instead of descending: 0, 1, .., start
ArangeUp(start) == [j \in 1..(start + 1) |-> j - 1]

\* jnp.arange(start, -1, -1): start, start-1, .., 0
ArangeDown(start) == [j \in 1..(start + 1) |-> start - (j - 1)]

-----------------------------------------------------------------------------
(* Bitstring / integer codec *)

IntMin == -2147483647 - 1
IntMax == 2147483647

\* x & y on non-negative integers
RECURSIVE BitAnd(_, _)
BitAnd(x, y) ==
    IF x = 0 \/ y = 0 THEN 0
    ELSE (x % 2) * (y % 2) + 2 * BitAnd(x \div 2, y \div 2)

\* 2^(1e-5) = 1.0000069315.. as the fraction EpsNum / EpsDen
EpsNum == 144270
EpsDen == 144269

\* ceil(log2(m) + 1e-5) for m >= 1: the least n with m * 2^(1e-5) <= 2^n
RECURSIVE CeilLog2Eps(_, _)
CeilLog2Eps(m, n) ==
    IF m * EpsNum <= (2 ^ n) * EpsDen THEN n ELSE CeilLog2Eps(m, n + 1)

\* nbits = (jnp.ceil(jnp.log2(integers.max()) + 1e-5)).astype(int)
\* log2(0) is -inf, ceil keeps it, and the cast to int32 saturates at IntMin
InferNbits(integers) ==
    LET mx == SeqMax(integers.data)
    IN  IF mx = 0 THEN IntMin ELSE CeilLog2Eps(mx, 0)

\* nbits - 1 in 32-bit arithmetic
Int32Pred(x) == IF x = IntMin THEN IntMax ELSE x - 1

\* (integers[:, None] & (1 << jnp.arange(nbits - 1, -1, -1))) > 0).astype(int)
BitMatrix(integers, nbits) ==
    LET exps == ArangeDown(nbits - 1)
        L == integers.shape[1]
    IN  [shape |-> <<L, nbits>>,
         data |-> [p \in 1..(L * nbits) |->
                     LET r == ((p - 1) \div nbits) + 1
                         j == ((p - 1) % nbits) + 1
                     IN  IF BitAnd(integers.data[r], 2 ^ exps[j]) > 0 THEN 1 ELSE 0]]

\* integers_to_bitstrings(integers, nbits) with nbits given
integers_to_bitstrings(integers, nbits) ==
    Squeeze(BitMatrix(AtLeast1d(integers), nbits))

\* bitstrings.dot(convarr): the last axis is contracted with the vector
DotLast(a, v) ==
    LET m == Len(v)
        front == SubSeq(a.shape, 1, Ndim(a) - 1)
    IN  [shape |-> front,
         data |-> [p \in 1..Prod(front) |->
                     SeqSum([j \in 1..m |-> a.data[(p - 1) * m + j] * v[j]])]]

\* convarr = 2 ** jnp.arange(bitstrings.shape[-1] - 1, -1, -1)
ConvArr(m) == LET e == ArangeDown(m - 1) IN [j \in 1..m |-> 2 ^ e[j]]

bitstrings_to_integers(bitstrings) ==
    LET b2 == AtLeast2d(bitstrings)
    IN  Squeeze(DotLast(b2, ConvArr(b2.shape[Ndim(b2)])))

-----------------------------------------------------------------------------
(* Complex numbers and tensor operations *)

CAdd(x, y) == <<x[1] + y[1], x[2] + y[2]>>

CMul(x, y) == <<x[1] * y[1] - x[2] * y[2], x[1] * y[2] + x[2] * y[1]>>

CConj(x) == <<x[1], -x[2]>>

RECURSIVE CSum(_)
CSum(s) == IF s = <<>> THEN <<0, 0>> ELSE CAdd(Head(s), CSum(Tail(s)))

Range(s) == {s[i] : i \in DOMAIN s}

\* position of x in the sequence s (x occurs once)
IndexOf(s, x) == CHOOSE i \in DOMAIN s : s[i] = x

\* the axes 0..nd-1 that are not in `axes`, ascending
FreeAxes(nd, axes) == SelectSeq([i \in 1..nd |-> i - 1], LAMBDA x : x \notin Range(axes))

\* the shape along the given axes
ShapeAt(shape, axes) == [i \in DOMAIN axes |-> shape[axes[i] + 1]]

\* the multi-index of rank nd with vals1 at axes1 and vals2 at axes2
Place(nd, axes1, vals1, axes2, vals2) ==
    [x \in 1..nd |-> IF (x - 1) \in Range(axes1)
                     THEN vals1[IndexOf(axes1, x - 1)]
                     ELSE vals2[IndexOf(axes2, x - 1)]]

\* statetensor.conjugate()
Conjugate(a) == [a EXCEPT !.data = [p \in DOMAIN a.data |-> CConj(a.data[p])]]

\* jnp.tensordot(a, b, axes=(axes_a, axes_b)): the named axes are summed over,
\* the result has a's remaining axes, then b's, each in their order
TensorDot(a, b, axes_a, axes_b) ==
    LET fa == FreeAxes(Ndim(a), axes_a)
        fb == FreeAxes(Ndim(b), axes_b)
        sc == ShapeAt(a.shape, axes_a)
        shape == ShapeAt(a.shape, fa) \o ShapeAt(b.shape, fb)
    IN  [shape |-> shape,
         data |-> [p \in 1..Prod(shape) |->
            LET idx == Unravel(p - 1, shape)
                i == SubSeq(idx, 1, Len(fa))
                j == SubSeq(idx, Len(fa) + 1, Len(idx))
            IN  CSum([q \in 1..Prod(sc) |->
                    LET c == Unravel(q - 1, sc)
                    IN  CMul(At(a, Place(Ndim(a), axes_a, c, fa, i)),
                             At(b, Place(Ndim(b), axes_b, c, fb, j)))])]]

\* list.insert(pos, x), pos 0-based
Insert(s, pos, x) == SubSeq(s, 1, pos) \o <<x>> \o SubSeq(s, pos + 1, Len(s))

\* for dest, src in sorted(zip(destination, source)): order.insert(dest, src)
RECURSIVE InsertSorted(_, _, _)
InsertSorted(order, source, destination) ==
    IF source = <<>> THEN order
    ELSE LET m == CHOOSE i \in DOMAIN destination :
                     \A k \in DOMAIN destination :
                        \/ destination[i] < destination[k]
                        \/ destination[i] = destination[k] /\ source[i] <= source[k]
             rest == SelectSeq([k \in DOMAIN source |-> k], LAMBDA k : k # m)
         IN  InsertSorted(Insert(order, destination[m], source[m]),
                          [k \in DOMAIN rest |-> source[rest[k]]],
                          [k \in DOMAIN rest |-> destination[rest[k]]])

\* axis i of the result is axis perm[i] of a
Transpose(a, perm) ==
    LET shape == ShapeAt(a.shape, perm)
    IN  [shape |-> shape,
         data |-> [p \in 1..Prod(shape) |->
            LET idx == Unravel(p - 1, shape)
            IN  At(a, [x \in 1..Ndim(a) |-> idx[IndexOf(perm, x - 1)]])]]

\* jnp.moveaxis(a, source, destination)
MoveAxis(a, source, destination) ==
    Transpose(a, InsertSorted(FreeAxes(Ndim(a), source), source, destination))

\* range(n)
RangeN(n) == [i \in 1..n |-> i - 1]

\* source and destination of the moveaxis exchanged
statetensor_new_swapped(gate_tensor, qubit_inds, statetensor) ==
    LET k == Len(qubit_inds)
        last == [i \in 1..k |-> Ndim(gate_tensor) - k + i - 1]
        contracted == TensorDot(gate_tensor, statetensor, last, qubit_inds)
    IN  MoveAxis(contracted, qubit_inds, RangeN(k))

\* the tensor the evaluator contracts with the conjugate statetensor (lines 32-34)
statetensor_new(gate_tensor, qubit_inds, statetensor) ==
    LET k == Len(qubit_inds)
        last == [i \in 1..k |-> Ndim(gate_tensor) - k + i - 1]
        contracted == TensorDot(gate_tensor, statetensor, last, qubit_inds)
    IN  MoveAxis(contracted, RangeN(k), qubit_inds)

\* statetensor_to_single_expectation(statetensor), real part of the overlap
statetensor_to_single_expectation(gate_tensor, qubit_inds, statetensor) ==
    LET axes == RangeN(Ndim(statetensor))
        new == statetensor_new(gate_tensor, qubit_inds, statetensor)
    IN  TensorDot(Conjugate(statetensor), new, axes, axes).data[1][1]

-----------------------------------------------------------------------------
(* Gate tensor assembly *)

Pending == [status |-> "pending"]

Ok(v) == [status |-> "ok", value |-> v]

Raise(kind) == [status |-> "error", kind |-> kind]

C(re, im) == <<re, im>>

\* the registry qujax.gates: name -> array; gates.py is not part of the sources,
\* the entries are the canonical Pauli Y, Pauli Z and controlled-X unitaries
GateNames == {"Y", "Z", "CX"}

gates(name) ==
    IF name = "Y" THEN [shape |-> <<2, 2>>,
                        data |-> <<C(0, 0), C(0, -1), C(0, 1), C(0, 0)>>]
    ELSE IF name = "Z" THEN [shape |-> <<2, 2>>,
                             data |-> <<C(1, 0), C(0, 0), C(0, 0), C(-1, 0)>>]
    ELSE [shape |-> <<2, 2, 2, 2>>,
          data |-> <<C(1, 0), C(0, 0), C(0, 0), C(0, 0),
                     C(0, 0), C(1, 0), C(0, 0), C(0, 0),
                     C(0, 0), C(0, 0), C(0, 0), C(1, 0),
                     C(0, 0), C(0, 0), C(1, 0), C(0, 0)>>]

\* a gate specification: a name (isinstance(gate, str)) or an array
Named(name) == [is_str |-> TRUE, name |-> name, arr |-> Scalar(C(0, 0))]

Arr(a) == [is_str |-> FALSE, name |-> "", arr |-> a]

\* int(jnp.log2(size)) for size >= 1: the largest r with 2^r <= size
RECURSIVE IntLog2(_)
IntLog2(size) == IF size < 2 THEN 0 ELSE 1 + IntLog2(size \div 2)

\* (2,) * r
Twos(r) == [i \in 1..r |-> 2]

\* arr.reshape(shape) succeeds when the sizes agree
CanReshape(a, shape) == Prod(shape) = Size(a)

Reshape(a, shape) == [a EXCEPT !.shape = shape]

\* shape padded in front with ones to rank nd (jnp.kron's expand_dims)
PadShape(shape, nd) == [i \in 1..(nd - Len(shape)) |-> 1] \o shape

\* jnp.kron(a, b) for arrays of any ranks
Kron(a, b) ==
    LET nd == IF Ndim(a) > Ndim(b) THEN Ndim(a) ELSE Ndim(b)
        sa == PadShape(a.shape, nd)
        sb == PadShape(b.shape, nd)
        shape == [i \in 1..nd |-> sa[i] * sb[i]]
    IN  [shape |-> shape,
         data |-> [p \in 1..Prod(shape) |->
            LET idx == Unravel(p - 1, shape)
            IN  CMul(a.data[Ravel([i \in 1..nd |-> idx[i] \div sb[i]], sa) + 1],
                     b.data[Ravel([i \in 1..nd |-> idx[i] % sb[i]], sb) + 1])]]

\* for single_gate_matrix in single_gate_arrs[1:]: full = kron(full, matrix)
RECURSIVE KronAll(_, _)
KronAll(full, rest) ==
    IF rest = <<>> THEN full ELSE KronAll(Kron(full, Head(rest)), Tail(rest))

\* get_gate_tensor(gate_seq): the tensor, or the error the first failing line raises
get_gate_tensor(gate_seq) ==
    IF \E i \in DOMAIN gate_seq : gate_seq[i].is_str /\ gate_seq[i].name \notin GateNames
    THEN Raise("KeyError")
    ELSE LET arrs == [i \in DOMAIN gate_seq |->
                        IF gate_seq[i].is_str THEN gates(gate_seq[i].name)
                        ELSE gate_seq[i].arr]
         IN  IF \E i \in DOMAIN arrs : ~CanReshape(arrs[i], Twos(IntLog2(Size(arrs[i]))))
             THEN Raise("reshape")
             ELSE IF arrs = <<>> THEN Raise("IndexError")
             ELSE LET twos == [i \in DOMAIN arrs |->
                                 Reshape(arrs[i], Twos(IntLog2(Size(arrs[i]))))]
                      full == KronAll(Head(twos), Tail(twos))
                  IN  Ok(Reshape(full, Twos(IntLog2(Size(full)))))

-----------------------------------------------------------------------------
(* Weighted observable *)

Min(a, b) == IF a < b THEN a ELSE b

\* apply_gate_funcs: one (gate tensor, qubit indices) closure per pair of the zip
apply_gate_funcs(gate_seq_seq, qubits_seq_seq) ==
    [i \in 1..Min(Len(gate_seq_seq), Len(qubits_seq_seq)) |->
        [gate_tensor |-> get_gate_tensor(gate_seq_seq[i]), qubit_inds |-> qubits_seq_seq[i]]]

\* out = coeff * f(statetensor) instead of out += ..
RECURSIVE AccumulateOverwrite(_, _, _, _)
AccumulateOverwrite(out, coefficients, funcs, statetensor) ==
    IF coefficients = <<>> \/ funcs = <<>> THEN out
    ELSE AccumulateOverwrite(Head(coefficients)
                               * statetensor_to_single_expectation(
                                    Head(funcs).gate_tensor.value, Head(funcs).qubit_inds,
                                    statetensor),
                             Tail(coefficients), Tail(funcs), statetensor)

\* for coeff, f in zip(coefficients, apply_gate_funcs): out += coeff * f(statetensor)
RECURSIVE Accumulate(_, _, _, _)
Accumulate(out, coefficients, funcs, statetensor) ==
    IF coefficients = <<>> \/ funcs = <<>> THEN out
    ELSE Accumulate(out + Head(coefficients)
                          * statetensor_to_single_expectation(Head(funcs).gate_tensor.value,
                                                              Head(funcs).qubit_inds,
                                                              statetensor),
                    Tail(coefficients), Tail(funcs), statetensor)

\* statetensor_to_expectation_func(statetensor)
statetensor_to_expectation_func(coefficients, funcs, statetensor) ==
    Accumulate(0, coefficients, funcs, statetensor)

-----------------------------------------------------------------------------
(* Sampling *)

\* random.choice(key, a=arange(size), shape=(n_samps,), p=sv_probs): every array of
\* n_samps indices of non-zero probability is a possible draw
sample_integers(statetensor, n_samps) ==
    LET flat == statetensor.data
        sv_probs == [p \in DOMAIN flat |-> flat[p][1] * flat[p][1] + flat[p][2] * flat[p][2]]
    IN  {Vector(s) : s \in [1..n_samps -> {p - 1 : p \in {q \in DOMAIN flat : sv_probs[q] > 0}}]}

-----------------------------------------------------------------------------
(* Circuit argument checks *)

\* a python value: a Sequence (list) of items, or something that is not a Sequence
List(items) == [seq |-> TRUE, items |-> items]

NotSeq == [seq |-> FALSE, items |-> <<>>]

\* max([max(qi) for qi in qubit_inds_seq]), defined when no list is empty
MaxOfMax(qubit_inds_seq) ==
    SeqMax([i \in DOMAIN qubit_inds_seq |-> SeqMax(qubit_inds_seq[i].items)])

\* gate_seq / qubit_inds_seq / param_inds_seq lengths differ (line 38)
LengthsDiffer(gate_seq, qubit_inds_seq, param_inds_seq) ==
    \/ Len(gate_seq.items) # Len(qubit_inds_seq.items)
    \/ Len(param_inds_seq.items) # Len(param_inds_seq.items)

check_circuit(gate_seq, qubit_inds_seq, param_inds_seq, has_n_qubits, n_qubits) ==
    IF ~gate_seq.seq THEN Raise("TypeError: gate_seq")
    ELSE IF ~qubit_inds_seq.seq
            \/ \E i \in DOMAIN qubit_inds_seq.items : ~qubit_inds_seq.items[i].seq
    THEN Raise("TypeError: qubit_inds_seq")
    ELSE IF ~param_inds_seq.seq
            \/ \E i \in DOMAIN param_inds_seq.items : ~param_inds_seq.items[i].seq
    THEN Raise("TypeError: param_inds_seq")
    ELSE IF LengthsDiffer(gate_seq, qubit_inds_seq, param_inds_seq)
    THEN Raise("TypeError: lengths")
    ELSE IF ~has_n_qubits THEN Ok(0)
    ELSE IF qubit_inds_seq.items = <<>>
            \/ \E i \in DOMAIN qubit_inds_seq.items : qubit_inds_seq.items[i].items = <<>>
    THEN Raise("ValueError: max of empty")
    ELSE IF n_qubits < MaxOfMax(qubit_inds_seq.items) + 1
    THEN Raise("TypeError: n_qubits")
    ELSE Ok(0)

-----------------------------------------------------------------------------
(* Inputs *)

SeqsUpTo(S, n) == UNION {[1..k -> S] : k \in 0..n}

IntArrays ==
    {Scalar(v) : v \in 0..(2 ^ MaxBits - 1)}
    \cup UNION {{Vector(s) : s \in [1..L -> 0..(2 ^ MaxElemBits - 1)]} : L \in 1..MaxLen}

BitArrays ==
    UNION {{Vector(s) : s \in [1..m -> {0, 1}]} : m \in 1..MaxBits}
    \cup UNION {{[shape |-> <<R, m>>, data |-> s] : s \in [1..(R * m) -> {0, 1}]}
                  : <<R, m>> \in (1..MaxLen) \X (1..MaxElemBits)}

\* statetensors of n qubits for sampling: amplitude 1 at one basis state, or 1 at
\* one and i at another (every other outcome has probability 0)
SparseStates(n) ==
    {[shape |-> Twos(n),
      data |-> [p \in 1..(2 ^ n) |-> IF p = x THEN C(1, 0)
                                     ELSE IF p = y THEN C(0, 1) ELSE C(0, 0)]]
       : x \in 1..(2 ^ n), y \in 1..(2 ^ n)}

\* statetensors of n qubits for the evaluators: two with all amplitudes non-zero and
\* pairwise different, and the one with amplitude 1 at |0..0> and |1..1>
StateTensors(n) ==
    {[shape |-> Twos(n), data |-> [p \in 1..(2 ^ n) |-> C(p, (p * p) % 3)]],
     [shape |-> Twos(n), data |-> [p \in 1..(2 ^ n) |-> C(1 - (p % 3), p)]],
     [shape |-> Twos(n), data |-> [p \in 1..(2 ^ n) |->
                                     IF p = 1 \/ p = 2 ^ n THEN C(1, 0) ELSE C(0, 0)]]}

\* explicit gate arrays: a 2x2 and a 4x4 matrix with no symmetry
ArrA == [shape |-> <<2, 2>>, data |-> <<C(1, 0), C(2, 0), C(0, 1), C(0, 3)>>]

ArrB == [shape |-> <<4, 4>>, data |-> [p \in 1..16 |-> C(p, p % 3)]]

\* arrays whose element count is no power of 4
Counting(shape) == [shape |-> shape, data |-> [p \in 1..Prod(shape) |-> C(p, 0)]]

OddArrays == {Counting(<<2>>), Counting(<<2, 3>>), Counting(<<2, 4>>), Counting(<<3, 3>>)}

GateSpecs ==
    {Named("Y"), Named("Z"), Named("CX"), Named("Q"), Arr(ArrA), Arr(ArrB)}
    \cup {Arr(a) : a \in OddArrays}

\* ordered selections of k distinct qubits among n
QubitOrders(n, k) ==
    {q \in [1..k -> 0..(n - 1)] : \A i, j \in 1..k : i # j => q[i] # q[j]}

\* gate tensors of rank 2k for the single-term evaluator
GateTensors(k) ==
    {get_gate_tensor([i \in 1..k |-> IF i % 2 = 1 THEN Arr(ArrA) ELSE Named("Y")]).value,
     get_gate_tensor([i \in 1..k |-> IF i % 2 = 1 THEN Named("Y") ELSE Arr(ArrA)]).value}
    \cup (IF k = 2 THEN {get_gate_tensor(<<Arr(ArrB)>>).value,
                         get_gate_tensor(<<Named("CX")>>).value} ELSE {})

\* observable terms on two qubits: (gate sequence, qubit indices)
Terms ==
    {[gates |-> <<Named("Z")>>, qubits |-> <<0>>],
     [gates |-> <<Arr(ArrA), Named("Y")>>, qubits |-> <<1, 0>>]}

Coefficients == {2, -3}

InitI2B ==
    /\ fn = "integers_to_bitstrings"
    /\ \E a \in IntArrays :
       \/ \E n \in 1..MaxBits : args = [integers |-> a, has_nbits |-> TRUE, nbits |-> n]
       \/ args = [integers |-> a, has_nbits |-> FALSE, nbits |-> 0]

InitB2I ==
    /\ fn = "bitstrings_to_integers"
    /\ \E b \in BitArrays : args = [bitstrings |-> b]

InitSample ==
    /\ fn = "sample_bitstrings"
    /\ \E n \in 1..MaxQubits, m \in 1..MaxSamps :
       \E s \in SparseStates(n) : args = [statetensor |-> s, n_samps |-> m]

InitGate ==
    /\ fn = "get_gate_tensor"
    /\ \E gs \in SeqsUpTo(GateSpecs, MaxGates) : args = [gate_seq |-> gs]

InitSingle ==
    /\ fn = "single_expectation"
    /\ \E n \in 1..MaxQubits :
       \E k \in 1..Min(n, MaxGates) :
       \E g \in GateTensors(k), q \in QubitOrders(n, k), s \in StateTensors(n) :
          args = [gate_tensor |-> g, qubit_inds |-> q, statetensor |-> s]

\* the terms are drawn as a list; gate_seq_seq and qubits_seq_seq are prefixes of it,
\* at least one of them the whole list, so that their lengths may differ
InitExpectation ==
    /\ fn = "expectation"
    /\ \E ts \in SeqsUpTo(Terms, MaxTerms), cs \in SeqsUpTo(Coefficients, MaxTerms) :
       \E rg, rq \in 0..Len(ts) :
       \E s \in StateTensors(2) :
          /\ rg = Len(ts) \/ rq = Len(ts)
          /\ args = [gate_seq_seq |-> [i \in 1..rg |-> ts[i].gates],
                     qubits_seq_seq |-> [i \in 1..rq |-> ts[i].qubits],
                     coefficients |-> cs,
                     statetensor |-> s]

GateSeqs == {NotSeq} \cup {List(s) : s \in SeqsUpTo({"H"}, MaxCirc)}

IndexLists(elems) == {NotSeq} \cup {List(s) : s \in SeqsUpTo(elems, MaxCirc)}

InitCheckCircuit ==
    /\ fn = "check_circuit"
    /\ \E g \in GateSeqs,
          q \in IndexLists({List(<<0>>), List(<<1>>), NotSeq}),
          p \in IndexLists({List(<<>>), List(<<0>>), NotSeq}) :
       \/ args = [gate_seq |-> g, qubit_inds_seq |-> q, param_inds_seq |-> p,
                  has_n_qubits |-> FALSE, n_qubits |-> 0]
       \/ \E n \in 1..2 :
             args = [gate_seq |-> g, qubit_inds_seq |-> q, param_inds_seq |-> p,
                     has_n_qubits |-> TRUE, n_qubits |-> n]

\* before the call: nothing returned yet
Fresh == pc = "call" /\ ret = Pending /\ back = Pending

InitCodec == Fresh /\ (InitI2B \/ InitB2I \/ InitSample)

InitAssemble == Fresh /\ InitGate

InitSingleTerm == Fresh /\ InitSingle

InitObservable == Fresh /\ InitExpectation

InitCircuit == Fresh /\ InitCheckCircuit

-----------------------------------------------------------------------------
(* Actions *)

\* integers_to_bitstrings(integers, nbits=None)
IntegersToBitstrings ==
    /\ pc = "call"
    /\ fn = "integers_to_bitstrings"
    /\ LET nbits == IF args.has_nbits THEN args.nbits
                    ELSE InferNbits(AtLeast1d(args.integers))
           \* arange starts at nbits - 1; IntMax asks for 2^31 columns, which the
           \* model does not build
       IN  ret' = IF Int32Pred(nbits) = IntMax
                  THEN [status |-> "oversize", nbits |-> nbits]
                  ELSE [status |-> "ok", nbits |-> nbits,
                        value |-> integers_to_bitstrings(args.integers, nbits)]
    /\ pc' = "done"
    /\ UNCHANGED <<fn, args, back>>

\* bitstrings_to_integers(bitstrings) on drawn bitstrings
BitstringsToIntegers ==
    /\ pc = "call"
    /\ fn = "bitstrings_to_integers"
    /\ ret' = Ok(bitstrings_to_integers(args.bitstrings))
    /\ pc' = "done"
    /\ UNCHANGED <<fn, args, back>>

\* bitstrings_to_integers(integers_to_bitstrings(..)): the encoded result is decoded
DecodeResult ==
    /\ pc = "done"
    /\ fn = "integers_to_bitstrings"
    /\ ret.status = "ok"
    /\ back' = Ok(bitstrings_to_integers(ret.value))
    /\ pc' = "decoded"
    /\ UNCHANGED <<fn, args, ret>>

\* sample_bitstrings(random_key, statetensor, n_samps)
SampleBitstrings ==
    /\ pc = "call"
    /\ fn = "sample_bitstrings"
    /\ \E sampled_inds \in sample_integers(args.statetensor, args.n_samps) :
          ret' = [status |-> "ok", sampled_inds |-> sampled_inds,
                  value |-> integers_to_bitstrings(sampled_inds, Ndim(args.statetensor))]
    /\ pc' = "done"
    /\ UNCHANGED <<fn, args, back>>

\* get_gate_tensor(gate_seq)
GetGateTensor ==
    /\ pc = "call"
    /\ fn = "get_gate_tensor"
    /\ ret' = get_gate_tensor(args.gate_seq)
    /\ pc' = "done"
    /\ UNCHANGED <<fn, args, back>>

\* _statetensor_to_single_expectation_func(gate_tensor, qubit_inds)(statetensor)
SingleExpectation ==
    /\ pc = "call"
    /\ fn = "single_expectation"
    /\ ret' = [status |-> "ok",
               new |-> statetensor_new(args.gate_tensor, args.qubit_inds, args.statetensor),
               value |-> statetensor_to_single_expectation(args.gate_tensor, args.qubit_inds,
                                                           args.statetensor)]
    /\ pc' = "done"
    /\ UNCHANGED <<fn, args, back>>

\* get_statetensor_to_expectation_func(gate_seq_seq, qubits_seq_seq, coefficients)
\* followed by a call of the function it returns
Expectation ==
    /\ pc = "call"
    /\ fn = "expectation"
    /\ LET funcs == apply_gate_funcs(args.gate_seq_seq, args.qubits_seq_seq)
       IN  ret' = IF \E i \in DOMAIN funcs : funcs[i].gate_tensor.status = "error"
                  THEN Raise("construction")
                  ELSE Ok(statetensor_to_expectation_func(args.coefficients, funcs,
                                                          args.statetensor))
    /\ pc' = "done"
    /\ UNCHANGED <<fn, args, back>>

\* check_circuit(gate_seq, qubit_inds_seq, param_inds_seq, n_qubits)
CheckCircuit ==
    /\ pc = "call"
    /\ fn = "check_circuit"
    /\ ret' = check_circuit(args.gate_seq, args.qubit_inds_seq, args.param_inds_seq,
                            args.has_n_qubits, args.n_qubits)
    /\ pc' = "done"
    /\ UNCHANGED <<fn, args, back>>

NextCodec ==
    \/ IntegersToBitstrings
    \/ BitstringsToIntegers
    \/ DecodeResult
    \/ SampleBitstrings

\* the codec and the sampler
SpecCodec == InitCodec /\ [][NextCodec]_vars

\* gate tensor assembly
SpecAssemble == InitAssemble /\ [][GetGateTensor]_vars

\* the single-term evaluator
SpecSingleTerm == InitSingleTerm /\ [][SingleExpectation]_vars

\* the weighted observable
SpecObservable == InitObservable /\ [][Expectation]_vars

\* check_circuit
SpecCircuit == InitCircuit /\ [][CheckCircuit]_vars

-----------------------------------------------------------------------------
(* Properties *)

AllBelow(integers, nbits) == \A p \in DOMAIN integers.data : integers.data[p] < 2 ^ nbits

\* bit e of v
Bit(v, e) == (v \div (2 ^ e)) % 2

\* C1: round trip. For nbits >= 1 and integers 0 <= v < 2^nbits, a scalar or the
\* elements of an array, bitstrings_to_integers(integers_to_bitstrings(v, nbits))
\* returns the same integers, element by element in input order.
C1_RoundTrip ==
    (pc = "decoded" /\ args.has_nbits /\ AllBelow(args.integers, args.nbits))
        => LET got == back.value.data
            IN  /\ Len(got) \in {1, Len(args.integers.data)}
                \* a single returned value is compared with every input element
                /\ \A p \in DOMAIN args.integers.data :
                      got[IF Len(got) = 1 THEN 1 ELSE p] = args.integers.data[p]

\* C2: big-endian bit order. For 0 <= v < 2^nbits, position i of the bitstring of v
\* is bit nbits-1-i of v (most significant bit first), and bitstrings_to_integers
\* maps a row b of length m to the sum of b[i] * 2^(m-1-i).
C2_BigEndian ==
    /\ (fn = "integers_to_bitstrings" /\ pc # "call" /\ args.has_nbits
        /\ AllBelow(args.integers, args.nbits))
         => /\ Len(ret.value.data) = Len(args.integers.data) * args.nbits
            /\ \A r \in DOMAIN args.integers.data : \A i \in 0..(args.nbits - 1) :
                  ret.value.data[(r - 1) * args.nbits + i + 1]
                     = Bit(args.integers.data[r], args.nbits - 1 - i)
    /\ (fn = "bitstrings_to_integers" /\ pc = "done")
         => LET b == args.bitstrings
                m == b.shape[Ndim(b)]
                rows == Size(b) \div m
            IN  /\ Len(ret.value.data) = rows
                /\ \A r \in 1..rows :
                      ret.value.data[r]
                         = SeqSum([i \in 1..m |-> b.data[(r - 1) * m + i] * 2 ^ (m - i)])

\* C2 witness: integers_to_bitstrings(5, nbits=4) has returned [0, 1, 0, 1]
C2_Witness ==
    /\ fn = "integers_to_bitstrings" /\ pc = "done"
    /\ args.integers = Scalar(5) /\ args.has_nbits /\ args.nbits = 4
    /\ ret.value = Vector(<<0, 1, 0, 1>>)

\* the least width n >= 1 with mx < 2^n, i.e. max(1, ceil(log2(mx + 1)))
RECURSIVE MinimalWidth(_, _)
MinimalWidth(mx, n) == IF mx < 2 ^ n THEN n ELSE MinimalWidth(mx, n + 1)

\* C3: with nbits omitted the width used is ceil(log2(max + 1)), at least 1, for
\* every non-negative input, an all-zero input included.
C3_InferredWidth ==
    (fn = "integers_to_bitstrings" /\ pc # "call" /\ ~args.has_nbits)
        => ret.nbits = MinimalWidth(SeqMax(args.integers.data), 1)

\* C4: sample_bitstrings returns n_samps bitstrings of n entries in {0, 1} each:
\* an array of shape (n_samps, n), also for n_samps = 1 and for n = 1.
C4_SampleShape ==
    (fn = "sample_bitstrings" /\ pc = "done")
        => /\ ret.value.shape = <<args.n_samps, Ndim(args.statetensor)>>
           /\ \A p \in DOMAIN ret.value.data : ret.value.data[p] \in {0, 1}

EqualLengths ==
    /\ Len(args.gate_seq_seq) = Len(args.qubits_seq_seq)
    /\ Len(args.gate_seq_seq) = Len(args.coefficients)

\* C5: with as many coefficients as terms, the function returned by
\* get_statetensor_to_expectation_func returns the sum over the terms of
\* coefficient * single-term expectation, and 0 when there is no term.
C5_WeightedSum ==
    (fn = "expectation" /\ pc = "done" /\ EqualLengths)
        => /\ ret.status = "ok"
           /\ ret.value
                = SeqSum([i \in DOMAIN args.coefficients |->
                            args.coefficients[i]
                            * statetensor_to_single_expectation(
                                 get_gate_tensor(args.gate_seq_seq[i]).value,
                                 args.qubits_seq_seq[i], args.statetensor)])

\* C5 witness: two different terms with two different coefficients have been
\* combined to a non-zero value
C5_Witness ==
    /\ fn = "expectation" /\ pc = "done" /\ EqualLengths
    /\ Len(args.coefficients) = 2
    /\ args.gate_seq_seq[1] # args.gate_seq_seq[2]
    /\ args.coefficients[1] # args.coefficients[2]
    /\ ret.status = "ok" /\ ret.value # 0

\* t[b] = sum over c in {0,1}^k of G[b[q_0],..,b[q_{k-1}], c_0,..,c_{k-1}]
\*                                * s[b with position q_j replaced by c_j]
Transformed(G, q, s) ==
    LET k == Len(q)
    IN  [shape |-> s.shape,
         data |-> [p \in 1..Size(s) |->
            LET b == Unravel(p - 1, s.shape)
            IN  CSum([m \in 1..(2 ^ k) |->
                    LET c == Unravel(m - 1, Twos(k))
                    IN  CMul(At(G, [j \in 1..k |-> b[q[j] + 1]] \o c),
                             At(s, [x \in 1..Ndim(s) |->
                                      IF \E j \in 1..k : q[j] = x - 1
                                      THEN c[CHOOSE j \in 1..k : q[j] = x - 1]
                                      ELSE b[x]]))])]]

\* Re(sum over b of conj(s[b]) * t[b])
Overlap(s, t) ==
    CSum([p \in DOMAIN s.data |-> CMul(CConj(s.data[p]), t.data[p])])[1]

\* C6: for a gate tensor G of rank 2k and k distinct qubit indices in any order, the
\* evaluator computes the tensor t above, of the statetensor's shape, returns the
\* real part of <s|t>, and leaves the statetensor as it was.
C6_SingleTerm ==
    [][SingleExpectation =>
          /\ args' = args
          /\ ret'.new = Transformed(args.gate_tensor, args.qubit_inds, args.statetensor)
          /\ ret'.value = Overlap(args.statetensor, ret'.new)]_vars

\* C6 witness: a two-qubit gate tensor was evaluated on qubits (2, 0) of three,
\* descending and not adjacent
C6_Witness ==
    /\ fn = "single_expectation" /\ pc = "done"
    /\ args.qubit_inds = <<2, 0>>
    /\ Ndim(args.statetensor) = 3
    /\ ret.value # 0

RECURSIVE IsPowerOf4(_)
IsPowerOf4(n) == n = 1 \/ (n > 1 /\ n % 4 = 0 /\ IsPowerOf4(n \div 4))

\* the array a gate specification stands for
SpecArray(g) == IF g.is_str THEN gates(g.name) ELSE g.arr

\* a known name, or an array with a power of 4 elements
ValidGate(g) ==
    /\ g.is_str => g.name \in GateNames
    /\ IsPowerOf4(Size(SpecArray(g)))

\* the square-matrix form: side sqrt(size)
Square(a) == LET side == 2 ^ (IntLog2(Size(a)) \div 2) IN Reshape(a, <<side, side>>)

\* the Kronecker product of the square-matrix forms in sequence order, as a
\* tensor of rank 2K: output legs first, input legs last
KroneckerTensor(gate_seq) ==
    LET squares == [i \in DOMAIN gate_seq |-> Square(SpecArray(gate_seq[i]))]
        full == KronAll(Head(squares), Tail(squares))
    IN  Reshape(full, Twos(IntLog2(Size(full))))

\* C7: for every non-empty sequence of gates, single-qubit or wider, get_gate_tensor
\* returns the Kronecker product of the square-matrix forms in sequence order,
\* reshaped to rank 2K with the K output legs first and the K input legs last.
C7_KroneckerProduct ==
    (fn = "get_gate_tensor" /\ pc = "done" /\ args.gate_seq # <<>>
     /\ \A i \in DOMAIN args.gate_seq : ValidGate(args.gate_seq[i]))
        => /\ ret.status = "ok"
           /\ ret.value = KroneckerTensor(args.gate_seq)

\* C8: when the numbers of gate sequences, qubit-index lists and coefficients are
\* not all equal, get_statetensor_to_expectation_func reports an error (when built
\* or at the first evaluation) and no expectation value is returned.
C8_MismatchIsError ==
    (fn = "expectation" /\ pc = "done" /\ ~EqualLengths) => ret.status = "error"

\* C9: gate tensor assembly fails for every array gate specification whose element
\* count is not a power of 4.
C9_NotPowerOf4IsError ==
    (fn = "get_gate_tensor" /\ pc = "done"
     /\ \E i \in DOMAIN args.gate_seq :
           ~args.gate_seq[i].is_str /\ ~IsPowerOf4(Size(args.gate_seq[i].arr)))
        => ret.status = "error"

WellTyped(x) == x.seq /\ \A i \in DOMAIN x.items : x.items[i].seq

\* C10: for well-typed sequences check_circuit raises the length TypeError exactly
\* when gate_seq, qubit_inds_seq and param_inds_seq do not all have the same length.
C10_LengthCheck ==
    (fn = "check_circuit" /\ pc = "done"
     /\ args.gate_seq.seq /\ WellTyped(args.qubit_inds_seq) /\ WellTyped(args.param_inds_seq))
        => (ret = Raise("TypeError: lengths")
              <=> ~(/\ Len(args.gate_seq.items) = Len(args.qubit_inds_seq.items)
                    /\ Len(args.gate_seq.items) = Len(args.param_inds_seq.items)))

====
